---- MODULE Spec2Model ----
(***************************************************************************)
(* Model of backend/agents/podcast_agent/learn_lab_assistant_agent.py:     *)
(* the PodcastGenerator stage graph (route_content, check_cache,           *)
(* rag_retrieval, topic_expansion, script_generation, tts_generation,      *)
(* generate_flashcards, generate_quiz), its two entry points               *)
(* (generate_content, generate_podcast) and the fallback script parser     *)
(* (parse_unstructured_script).                                            *)
(***************************************************************************)
EXTENDS Integers, Sequences, FiniteSets, TLC

(***************************************************************************)
(* Text.  A Python str is a sequence of tokens.  The word "Speaker" is one *)
(* token (its letters occur nowhere else in the alphabet, so every         *)
(* occurrence of "Speaker 1:" in the real string is token-aligned); every  *)
(* other token is a single character.                                      *)
(***************************************************************************)
SpaceChar == " "
Newline == "\n"

Prefix1 == <<"Speaker", SpaceChar, "1", ":">>
Prefix2 == <<"Speaker", SpaceChar, "2", ":">>

\* str.startswith(prefix)
StartsWith(s, p) == Len(s) >= Len(p) /\ SubSeq(s, 1, Len(p)) = p

Drop(s, n) == SubSeq(s, n + 1, Len(s))

IsSpace(c) == c \in {SpaceChar, Newline}

RECURSIVE LStrip(_)
LStrip(s) == IF s # <<>> /\ IsSpace(Head(s)) THEN LStrip(Tail(s)) ELSE s

RECURSIVE RStrip(_)
RStrip(s) ==
    IF s # <<>> /\ IsSpace(s[Len(s)]) THEN RStrip(SubSeq(s, 1, Len(s) - 1)) ELSE s

\* str.strip(): leading and trailing whitespace removed
Strip(s) == RStrip(LStrip(s))

\* str.replace(old, ""): every non-overlapping occurrence of old, scanning
\* left to right, is removed
RECURSIVE ReplaceAllEmpty(_, _)
ReplaceAllEmpty(s, old) ==
    IF s = <<>> THEN <<>>
    ELSE IF StartsWith(s, old) THEN ReplaceAllEmpty(Drop(s, Len(old)), old)
    ELSE <<Head(s)>> \o ReplaceAllEmpty(Tail(s), old)

\* str.split('\n'): the pieces between newlines; "" splits to [""]
RECURSIVE SplitFrom(_, _)
SplitFrom(s, cur) ==
    IF s = <<>> THEN <<cur>>
    ELSE IF Head(s) = Newline THEN <<cur>> \o SplitFrom(Tail(s), <<>>)
    ELSE SplitFrom(Tail(s), Append(cur, Head(s)))

SplitLines(s) == SplitFrom(s, <<>>)

\* PodcastSegment(speaker=..., text=...)
PodcastSegment(speaker, text) == [speaker |-> speaker, text |-> text]

\* mutant of ParseLine: blank lines are not skipped
MutParseLineKeepBlank(line) ==
    IF StartsWith(line, Prefix1)
    THEN <<PodcastSegment("Speaker 1", Strip(ReplaceAllEmpty(line, Prefix1)))>>
    ELSE IF StartsWith(line, Prefix2)
    THEN <<PodcastSegment("Speaker 2", Strip(ReplaceAllEmpty(line, Prefix2)))>>
    ELSE <<PodcastSegment("Speaker 1", Strip(line))>>

\* mutant of ParseLine: a line without a role prefix goes to Speaker 2
MutParseLineDefaultSpeaker2(line) ==
    IF Strip(line) = <<>> THEN <<>>
    ELSE IF StartsWith(line, Prefix1)
    THEN <<PodcastSegment("Speaker 1", Strip(ReplaceAllEmpty(line, Prefix1)))>>
    ELSE IF StartsWith(line, Prefix2)
    THEN <<PodcastSegment("Speaker 2", Strip(ReplaceAllEmpty(line, Prefix2)))>>
    ELSE <<PodcastSegment("Speaker 2", Strip(line))>>

\* the body of the for loop of parse_unstructured_script on one line:
\* <<>> for a skipped line, a one-element sequence otherwise
ParseLine(line) ==
    IF Strip(line) = <<>> THEN <<>>
    ELSE IF StartsWith(line, Prefix1)
    THEN <<PodcastSegment("Speaker 1", Strip(ReplaceAllEmpty(line, Prefix1)))>>
    ELSE IF StartsWith(line, Prefix2)
    THEN <<PodcastSegment("Speaker 2", Strip(ReplaceAllEmpty(line, Prefix2)))>>
    ELSE <<PodcastSegment("Speaker 1", Strip(line))>>

RECURSIVE ParseLines(_)
ParseLines(lines) ==
    IF lines = <<>> THEN <<>> ELSE ParseLine(Head(lines)) \o ParseLines(Tail(lines))

\* parse_unstructured_script: the segments of the PodcastScript it returns
parse_unstructured_script(text) == ParseLines(SplitLines(text))

\* rendering of a script as one "<speaker>: <text>" line per segment
SpeakerText(speaker) ==
    IF speaker = "Speaker 1" THEN <<"Speaker", SpaceChar, "1">>
    ELSE IF speaker = "Speaker 2" THEN <<"Speaker", SpaceChar, "2">>
    ELSE <<"h">>

RECURSIVE RenderSegments(_)
RenderSegments(segs) ==
    IF segs = <<>> THEN <<>>
    ELSE SpeakerText(Head(segs).speaker) \o <<":", SpaceChar>> \o Head(segs).text
         \o (IF Len(segs) > 1 THEN <<Newline>> \o RenderSegments(Tail(segs)) ELSE <<>>)

(***************************************************************************)
(* Values of the workflow.                                                 *)
(***************************************************************************)
None == "None"

\* the two sequential/concurrent request slots; Spec uses the first only
Runs == {"r1", "r2"}
SeqRuns == {"r1"}

\* number of entry-point calls a behaviour makes
MaxRequests == 2

Questions == {"", "q1"}
Docs == {"", "d1"}
Keys == Questions \X Docs
OutputTypes == {"podcast", "flashcards", "quiz", "summary"}
EntryPoints == {"generate_content", "generate_podcast"}

\* URLs S3Storage.upload_file may return, clip lengths (ms) the TTS
\* endpoint may return
URLs == {"u1", "u2"}
ClipDurations == {1000, 2000}
SilenceMs == 500

\* state.script: None, a serialized PodcastScript (json) or raw text
NoScript == [fmt |-> "none", segs |-> <<>>, text |-> <<>>]
JsonScript(segs) == [fmt |-> "json", segs |-> segs, text |-> <<>>]
TextScript(text) == [fmt |-> "text", segs |-> <<>>, text |-> text]

\* contents the script-generation model call may return
LLMScripts ==
    { JsonScript(<<PodcastSegment("Speaker 1", <<"h">>),
                   PodcastSegment("Speaker 2", <<"h">>)>>),
      JsonScript(<<PodcastSegment("Host", <<"h">>)>>),
      TextScript(Prefix1 \o <<SpaceChar, "h", Newline>> \o Prefix2 \o <<SpaceChar, "h">>),
      TextScript(<<"h">>),
      TextScript(<<>>) }

\* mutant of ScriptTruthy: the empty string passes the check
MutScriptTruthyIgnoresEmpty(script) == script.fmt # "none"

\* Python truthiness of state.script ("not state.script")
ScriptTruthy(script) ==
    /\ script.fmt # "none"
    /\ ~(script.fmt = "text" /\ script.text = <<>>)

\* PodcastScript.parse_raw(script): ok with the segments, or raises
ParseRawOk(script) == script.fmt = "json"

\* generate_tts lines 457-460: structured parse first, fallback second
ScriptSegments(script) ==
    IF ParseRawOk(script) THEN script.segs ELSE parse_unstructured_script(script.text)

\* self.voice_ids.get(speaker), lines 127-130 and 464
voice_ids(speaker) ==
    IF speaker = "Speaker 1" THEN "voice1"
    ELSE IF speaker = "Speaker 2" THEN "voice2"
    ELSE None

\* RAGContext
RAGContext(question, pdf_title, answer, evidence) ==
    [question |-> question, pdf_title |-> pdf_title, answer |-> answer,
     evidence |-> evidence]

\* what rag_app.query_document returns when it does not raise
RagAnswer == "answer"
RagChunks == <<"chunk">>

\* the bundle cache_podcast stores (lines 485-495); NoBundle is a miss
NoBundle ==
    [present |-> FALSE, topic |-> None, script |-> NoScript,
     conversation_history |-> <<>>, source_pdf |-> None, s3_url |-> None,
     answer |-> None]

CacheBundle(topic, script, history, source_pdf, s3_url, answer) ==
    [present |-> TRUE, topic |-> topic, script |-> script,
     conversation_history |-> history, source_pdf |-> source_pdf,
     s3_url |-> s3_url, answer |-> answer]

\* CacheResult; cache_result = None is set = FALSE
NoCacheResult == [set |-> FALSE, found |-> FALSE, data |-> NoBundle]
CacheResult(found, data) == [set |-> TRUE, found |-> found, data |-> data]

\* EnhancedGraphState as built by the entry points (lines 265-279, 306-320,
\* 555-567)
EnhancedGraphState(question, pdf_title, output_type, rag_context) ==
    [messages |-> <<"human">>,
     topic |-> question,
     output_type |-> output_type,
     rag_context |-> rag_context,
     pdf_title |-> pdf_title,
     cache_result |-> NoCacheResult,
     s3_url |-> None,
     flashcards |-> None,
     quiz |-> None,
     current_stage |-> "start",
     script |-> NoScript]

NoState == EnhancedGraphState(None, None, None, RAGContext(None, None, None, <<>>))

\* the arguments of the entry-point call; prior is history[key] as it was
\* when the call was made
NoRequest ==
    [entry |-> None, question |-> None, pdf_title |-> None, output_type |-> None,
     prior |-> [done |-> FALSE, script |-> NoScript, s3_url |-> None,
                last_upload |-> "none"]]

\* clock seconds datetime.now() may show; the file name of line 472 is
\* decided by the second alone
Seconds == {"s1", "s2"}

\* locals of generate_tts; published is the run whose track the uploaded
\* file held
NoTts ==
    [segments |-> <<>>, audio_segments |-> <<>>, combined |-> -1, temp_file |-> None,
     s3_url |-> None, published |-> None]

\* what the entry point hands back: a response dict or an exception
NoResponse ==
    [kind |-> "none", error |-> None, cached |-> FALSE, s3_url |-> None,
     script |-> NoScript, quiz |-> None, flashcards |-> None]

VARIABLES
    script_text,  \* parser check: the text given to parse_unstructured_script
    pstage,       \* parser check: "input", "parsed", "rendered", "reparsed"
    parsed,       \* parser check: segments of the first parse
    rendered,     \* parser check: the rendering of parsed
    reparsed,     \* parser check: segments of the parse of rendered
    started,      \* number of entry-point calls made so far
    req,          \* per run: the arguments of the entry-point call
    pc,           \* per run: position (entry-point step or graph node)
    state,        \* per run: the EnhancedGraphState threaded through the graph
    tts,          \* per run: locals of generate_tts
    resp,         \* per run: what the entry point returned or raised
    calls,        \* per run: collaborator calls made, in order
    stages,       \* per run: graph nodes executed, in order
    cache,        \* PodcastCache: key -> bundle
    history,      \* per key: the first run whose upload succeeded, the last upload
    clock,        \* the current clock second
    disk          \* working directory: file name (second) -> run whose track it holds

pvars == <<script_text, pstage, parsed, rendered, reparsed>>
fvars == <<clock, disk>>
wvars == <<started, req, pc, state, tts, resp, calls, stages, cache, history, clock, disk>>
vars == <<script_text, pstage, parsed, rendered, reparsed,
          started, req, pc, state, tts, resp, calls, stages, cache, history, clock, disk>>

\* history[k]: done once a run of key k returned after its upload succeeded,
\* with the script and audio location that run returned; last_upload is the
\* outcome of the latest upload_file call of a run of key k
NoHistory ==
    [done |-> FALSE, script |-> NoScript, s3_url |-> None, last_upload |-> "none"]

WorkflowInit ==
    /\ started = 0
    /\ req = [r \in Runs |-> NoRequest]
    /\ pc = [r \in Runs |-> "idle"]
    /\ state = [r \in Runs |-> NoState]
    /\ tts = [r \in Runs |-> NoTts]
    /\ resp = [r \in Runs |-> NoResponse]
    /\ calls = [r \in Runs |-> <<>>]
    /\ stages = [r \in Runs |-> <<>>]
    /\ cache = [k \in Keys |-> NoBundle]
    /\ history = [k \in Keys |-> NoHistory]
    /\ clock = "s1"
    /\ disk = [f \in Seconds |-> None]

ParserIdle ==
    /\ script_text = <<>>
    /\ pstage = "unused"
    /\ parsed = <<>>
    /\ rendered = <<>>
    /\ reparsed = <<>>

Init == WorkflowInit /\ ParserIdle

(***************************************************************************)
(* Helpers of the actions.                                                 *)
(***************************************************************************)
\* one collaborator call, as logged in calls[r]; ok is FALSE when the call
\* raised (for a TTS call: answered with a status other than 200)
Call(op) == [op |-> op, voice |-> None, key |-> <<>>, num |-> 0, ok |-> TRUE]
FailedCall(c) == [c EXCEPT !.ok = FALSE]
TtsCall(voice) == [Call("tts") EXCEPT !.voice = voice]
CacheCall(op, key) == [Call(op) EXCEPT !.key = key]
GeneratorCall(op, num) == [Call(op) EXCEPT !.num = num]

Ops(r) == [i \in 1..Len(calls[r]) |-> calls[r][i].op]
Count(r, op) == Cardinality({i \in 1..Len(calls[r]) : calls[r][i].op = op})
CallFailed(r, op) == \E i \in 1..Len(calls[r]) : calls[r][i].op = op /\ ~calls[r][i].ok

RECURSIVE SumSeq(_)
SumSeq(s) == IF s = <<>> THEN 0 ELSE Head(s) + SumSeq(Tail(s))

\* an exception leaving the entry point (lines 299-301, 351-353, 585-587)
Raised(error) == [NoResponse EXCEPT !.kind = "raise", !.error = error]

\* "not state.rag_context": the context object is missing
RagContextAbsent(st) == st.rag_context.question = None

\* mutant of RouteTarget: a quiz request is sent through the cache check
MutRouteTargetQuizViaCache(output_type) ==
    IF output_type = "podcast" THEN "check_cache"
    ELSE IF output_type = "flashcards" THEN "generate_flashcards"
    ELSE IF output_type = "quiz" THEN "check_cache"
    ELSE None

\* conditional edges of route_content (lines 172-180): None is no edge
RouteTarget(output_type) ==
    IF output_type = "podcast" THEN "check_cache"
    ELSE IF output_type = "flashcards" THEN "generate_flashcards"
    ELSE IF output_type = "quiz" THEN "generate_quiz"
    ELSE None

\* route_from_cache (lines 383-384)
route_from_cache(st) ==
    IF st.cache_result.set /\ st.cache_result.found THEN "cached" ELSE "not_cached"

\* conditional edges of check_cache (lines 183-190)
CacheEdge(label) == IF label = "cached" THEN "tts_generation" ELSE "rag_retrieval"

\* mutant of NextNode: the outline goes straight to speech synthesis
MutNextNodeSkipScript(node) ==
    IF node = "rag_retrieval" THEN "topic_expansion"
    ELSE IF node = "topic_expansion" THEN "tts_generation"
    ELSE IF node = "script_generation" THEN "tts_generation"
    ELSE "END"

\* mutant of NextNode: script generation leads to a node no one added
MutNextNodeDangling(node) ==
    IF node = "rag_retrieval" THEN "topic_expansion"
    ELSE IF node = "topic_expansion" THEN "script_generation"
    ELSE IF node = "script_generation" THEN "refine_script"
    ELSE "END"

\* plain edges (lines 192-199)
NextNode(node) ==
    IF node = "rag_retrieval" THEN "topic_expansion"
    ELSE IF node = "topic_expansion" THEN "script_generation"
    ELSE IF node = "script_generation" THEN "tts_generation"
    ELSE "END"

\* the branch generate_content takes once the retrieval call returned
\* (lines 262, 303, 354)
ContentBranch(output_type) ==
    IF output_type = "quiz" THEN "invoke_quiz"
    ELSE IF output_type = "flashcards" THEN "invoke_flashcards"
    ELSE "generate_podcast"

\* the loop of lines 468-470: every clip is followed by a silence
Combine(audio_segments) == SumSeq(audio_segments) + SilenceMs * Len(audio_segments)

Finished(r) == pc[r] \in {"idle", "returned", "raised"}

\* the (question, document) pair of the run's request
RequestKey(r) == <<req[r].question, req[r].pdf_title>>

(***************************************************************************)
(* Entry points.                                                           *)
(***************************************************************************)
\* a caller calls generate_content(question, pdf_title, output_type) or
\* generate_podcast(question, pdf_title)
Request(r) ==
    /\ Finished(r)
    /\ started < MaxRequests
    /\ \E e \in EntryPoints, q \in Questions, d \in Docs, o \in OutputTypes :
          /\ e = "generate_podcast" => o = "podcast"
          /\ req' = [req EXCEPT ![r] =
                        [entry |-> e, question |-> q, pdf_title |-> d, output_type |-> o,
                         prior |-> history[<<q, d>>]]]
          /\ pc' = [pc EXCEPT ![r] = e]
    /\ started' = started + 1
    /\ state' = [state EXCEPT ![r] = NoState]
    /\ tts' = [tts EXCEPT ![r] = NoTts]
    /\ resp' = [resp EXCEPT ![r] = NoResponse]
    /\ calls' = [calls EXCEPT ![r] = <<>>]
    /\ stages' = [stages EXCEPT ![r] = <<>>]
    /\ UNCHANGED <<cache, history>>
    /\ UNCHANGED pvars
    /\ UNCHANGED fvars

\* generate_content line 260: retrieval, whatever the output type
QueryDocument(r) ==
    /\ pc[r] = "generate_content"
    /\ \E ok \in BOOLEAN :
          /\ calls' = [calls EXCEPT ![r] =
                 Append(@, IF ok THEN Call("rag") ELSE FailedCall(Call("rag")))]
          /\ IF ok
             THEN /\ pc' = [pc EXCEPT ![r] = ContentBranch(req[r].output_type)]
                  /\ resp' = resp
             ELSE /\ pc' = [pc EXCEPT ![r] = "raised"]
                  /\ resp' = [resp EXCEPT ![r] = Raised("retrieval error")]
    /\ UNCHANGED <<started, req, state, tts, stages, cache, history>>
    /\ UNCHANGED pvars
    /\ UNCHANGED fvars

\* the initial state and graph.invoke (lines 263-282, 304-323, 555-571)
InvokeGraph(r) ==
    /\ pc[r] \in {"invoke_quiz", "invoke_flashcards", "generate_podcast"}
    /\ state' = [state EXCEPT ![r] =
          IF pc[r] = "generate_podcast"
          THEN EnhancedGraphState(req[r].question, req[r].pdf_title, "podcast",
                   RAGContext(req[r].question, req[r].pdf_title, None, <<>>))
          ELSE EnhancedGraphState(req[r].question, req[r].pdf_title, req[r].output_type,
                   RAGContext(req[r].question, req[r].pdf_title, RagAnswer, RagChunks))]
    /\ pc' = [pc EXCEPT ![r] = "route_content"]
    /\ UNCHANGED <<started, req, tts, resp, calls, stages, cache, history>>
    /\ UNCHANGED pvars
    /\ UNCHANGED fvars

(***************************************************************************)
(* Graph nodes.  An exception raised by a node leaves graph.invoke and the *)
(* entry point re-raises it.                                               *)
(***************************************************************************)
\* route_content (lines 227-230) and its conditional edges
route_content(r) ==
    /\ pc[r] = "route_content"
    /\ stages' = [stages EXCEPT ![r] = Append(@, "route_content")]
    /\ state' = [state EXCEPT ![r].current_stage = "routing"]
    /\ IF RouteTarget(state[r].output_type) = None
       THEN /\ pc' = [pc EXCEPT ![r] = "raised"]
            /\ resp' = [resp EXCEPT ![r] = Raised("no edge for output type")]
       ELSE /\ pc' = [pc EXCEPT ![r] = RouteTarget(state[r].output_type)]
            /\ resp' = resp
    /\ UNCHANGED <<started, req, tts, calls, cache, history>>
    /\ UNCHANGED pvars
    /\ UNCHANGED fvars

\* the key check_cache looks up (lines 362-365)
LookupKey(st) == <<st.rag_context.question, st.rag_context.pdf_title>>

\* mutant of CheckCacheState: a hit does not copy the audio location
MutCheckCacheStateNoUrl(st, cached_result) ==
    IF cached_result.present
    THEN [st EXCEPT !.cache_result = CacheResult(TRUE, cached_result),
                    !.script = cached_result.script,
                    !.messages = Append(@, "cached"),
                    !.current_stage = "cache_check"]
    ELSE [st EXCEPT !.cache_result = CacheResult(FALSE, NoBundle),
                    !.current_stage = "cache_check"]

\* mutant of CheckCacheState: a hit does not copy the script
MutCheckCacheStateNoScript(st, cached_result) ==
    IF cached_result.present
    THEN [st EXCEPT !.cache_result = CacheResult(TRUE, cached_result),
                    !.s3_url = cached_result.s3_url,
                    !.messages = Append(@, "cached"),
                    !.current_stage = "cache_check"]
    ELSE [st EXCEPT !.cache_result = CacheResult(FALSE, NoBundle),
                    !.current_stage = "cache_check"]

\* the state check_cache leaves (lines 367-381), given what the cache returned
CheckCacheState(st, cached_result) ==
    IF cached_result.present
    THEN [st EXCEPT !.cache_result = CacheResult(TRUE, cached_result),
                    !.s3_url = cached_result.s3_url,
                    !.script = cached_result.script,
                    !.messages = Append(@, "cached"),
                    !.current_stage = "cache_check"]
    ELSE [st EXCEPT !.cache_result = CacheResult(FALSE, NoBundle),
                    !.current_stage = "cache_check"]

\* check_cache (lines 361-381) and its conditional edges
check_cache(r) ==
    /\ pc[r] = "check_cache"
    /\ stages' = [stages EXCEPT ![r] = Append(@, "check_cache")]
    /\ calls' = [calls EXCEPT ![r] = Append(@, CacheCall("cache_get", LookupKey(state[r])))]
    /\ state' = [state EXCEPT ![r] = CheckCacheState(@, cache[LookupKey(state[r])])]
    /\ pc' = [pc EXCEPT ![r] = CacheEdge(route_from_cache(state'[r]))]
    /\ UNCHANGED <<started, req, tts, resp, cache, history>>
    /\ UNCHANGED pvars
    /\ UNCHANGED fvars

\* retrieve_context (lines 387-405)
retrieve_context(r) ==
    /\ pc[r] = "rag_retrieval"
    /\ stages' = [stages EXCEPT ![r] = Append(@, "rag_retrieval")]
    /\ IF RagContextAbsent(state[r]) \/ state[r].pdf_title \in {None, ""}
       THEN /\ pc' = [pc EXCEPT ![r] = "raised"]
            /\ resp' = [resp EXCEPT ![r] = Raised("RAG context or PDF title not provided")]
            /\ UNCHANGED <<state, calls>>
       ELSE \E ok \in BOOLEAN :
               /\ calls' = [calls EXCEPT ![r] =
                      Append(@, IF ok THEN Call("rag") ELSE FailedCall(Call("rag")))]
               /\ IF ok
                  THEN /\ state' = [state EXCEPT
                              ![r].rag_context.answer = RagAnswer,
                              ![r].rag_context.evidence = RagChunks,
                              ![r].messages = Append(@, "context"),
                              ![r].current_stage = "rag_retrieval"]
                       /\ pc' = [pc EXCEPT ![r] = NextNode("rag_retrieval")]
                       /\ resp' = resp
                  ELSE /\ pc' = [pc EXCEPT ![r] = "raised"]
                       /\ resp' = [resp EXCEPT ![r] = Raised("retrieval error")]
                       /\ state' = state
    /\ UNCHANGED <<started, req, tts, cache, history>>
    /\ UNCHANGED pvars
    /\ UNCHANGED fvars

\* mutant of expand_topic: a failed model call is swallowed and the run goes
\* on without an outline
MutExpandTopicSwallowsError(r) ==
    /\ pc[r] = "topic_expansion"
    /\ stages' = [stages EXCEPT ![r] = Append(@, "topic_expansion")]
    /\ \E ok \in BOOLEAN :
          /\ calls' = [calls EXCEPT ![r] =
                 Append(@, IF ok THEN Call("llm") ELSE FailedCall(Call("llm")))]
          /\ state' = IF ok
                      THEN [state EXCEPT ![r].messages = Append(@, "outline"),
                                         ![r].current_stage = "topic_expansion"]
                      ELSE state
    /\ pc' = [pc EXCEPT ![r] = NextNode("topic_expansion")]
    /\ UNCHANGED <<started, req, tts, resp, cache, history>>
    /\ UNCHANGED pvars
    /\ UNCHANGED fvars

\* expand_topic (lines 408-423)
expand_topic(r) ==
    /\ pc[r] = "topic_expansion"
    /\ stages' = [stages EXCEPT ![r] = Append(@, "topic_expansion")]
    /\ \E ok \in BOOLEAN :
          /\ calls' = [calls EXCEPT ![r] =
                 Append(@, IF ok THEN Call("llm") ELSE FailedCall(Call("llm")))]
          /\ IF ok
             THEN /\ state' = [state EXCEPT ![r].messages = Append(@, "outline"),
                                            ![r].current_stage = "topic_expansion"]
                  /\ pc' = [pc EXCEPT ![r] = NextNode("topic_expansion")]
                  /\ resp' = resp
             ELSE /\ pc' = [pc EXCEPT ![r] = "raised"]
                  /\ resp' = [resp EXCEPT ![r] = Raised("model error")]
                  /\ state' = state
    /\ UNCHANGED <<started, req, tts, cache, history>>
    /\ UNCHANGED pvars
    /\ UNCHANGED fvars

\* generate_script (lines 425-447): the script is the structured parse
\* serialized again, or the raw content when the parse fails
generate_script(r) ==
    /\ pc[r] = "script_generation"
    /\ stages' = [stages EXCEPT ![r] = Append(@, "script_generation")]
    /\ \/ \E content \in LLMScripts :
             /\ calls' = [calls EXCEPT ![r] = Append(@, Call("llm"))]
             /\ state' = [state EXCEPT
                    ![r].script = IF ParseRawOk(content) THEN JsonScript(content.segs)
                                  ELSE content,
                    ![r].messages = Append(@, "script"),
                    ![r].current_stage = "script_generation"]
             /\ pc' = [pc EXCEPT ![r] = NextNode("script_generation")]
             /\ resp' = resp
       \/ /\ calls' = [calls EXCEPT ![r] = Append(@, FailedCall(Call("llm")))]
          /\ pc' = [pc EXCEPT ![r] = "raised"]
          /\ resp' = [resp EXCEPT ![r] = Raised("model error")]
          /\ state' = state
    /\ UNCHANGED <<started, req, tts, cache, history>>
    /\ UNCHANGED pvars
    /\ UNCHANGED fvars

\* mutant of generate_tts: the cache-hit return of lines 450-452 is missing
MutGenerateTtsIgnoresHit(r) ==
    /\ pc[r] = "tts_generation"
    /\ stages' = [stages EXCEPT ![r] = Append(@, "tts_generation")]
    /\ IF ~ScriptTruthy(state[r].script)
       THEN /\ pc' = [pc EXCEPT ![r] = "raised"]
            /\ resp' = [resp EXCEPT ![r] = Raised("No script available for TTS generation.")]
            /\ UNCHANGED <<tts, state>>
       ELSE /\ tts' = [tts EXCEPT ![r].segments = ScriptSegments(state[r].script)]
            /\ pc' = [pc EXCEPT ![r] = "tts_synthesize"]
            /\ UNCHANGED <<state, resp>>
    /\ UNCHANGED <<started, req, calls, cache, history>>
    /\ UNCHANGED pvars
    /\ UNCHANGED fvars

\* generate_tts, lines 449-460: the cache-hit return, the script check and
\* the parse
generate_tts(r) ==
    /\ pc[r] = "tts_generation"
    /\ stages' = [stages EXCEPT ![r] = Append(@, "tts_generation")]
    /\ IF state[r].cache_result.set /\ state[r].cache_result.found
       THEN /\ state' = [state EXCEPT ![r].current_stage = "complete"]
            /\ pc' = [pc EXCEPT ![r] = NextNode("tts_generation")]
            /\ UNCHANGED <<tts, resp>>
       ELSE IF ~ScriptTruthy(state[r].script)
       THEN /\ pc' = [pc EXCEPT ![r] = "raised"]
            /\ resp' = [resp EXCEPT ![r] = Raised("No script available for TTS generation.")]
            /\ UNCHANGED <<tts, state>>
       ELSE /\ tts' = [tts EXCEPT ![r].segments = ScriptSegments(state[r].script)]
            /\ pc' = [pc EXCEPT ![r] = "tts_synthesize"]
            /\ UNCHANGED <<state, resp>>
    /\ UNCHANGED <<started, req, calls, cache, history>>
    /\ UNCHANGED pvars
    /\ UNCHANGED fvars

\* the TTS call for the next segment of the loop (lines 463-465)
SegmentCall(r) ==
    TtsCall(voice_ids(tts[r].segments[Len(tts[r].audio_segments) + 1].speaker))

\* mutant of synthesize_speech: a failed segment is skipped with an empty
\* clip and the loop goes on
MutSynthesizeSpeechSkipsFailure(r) ==
    /\ pc[r] = "tts_synthesize"
    /\ Len(tts[r].audio_segments) < Len(tts[r].segments)
    /\ \/ \E audio \in ClipDurations :
             /\ calls' = [calls EXCEPT ![r] = Append(@, SegmentCall(r))]
             /\ tts' = [tts EXCEPT ![r].audio_segments = Append(@, audio)]
       \/ /\ calls' = [calls EXCEPT ![r] = Append(@, FailedCall(SegmentCall(r)))]
          /\ tts' = [tts EXCEPT ![r].audio_segments = Append(@, 0)]
    /\ UNCHANGED <<started, req, pc, resp, state, stages, cache, history>>
    /\ UNCHANGED pvars
    /\ UNCHANGED fvars

\* generate_tts, one turn of the loop of lines 463-466 with synthesize_speech
\* (lines 529-551): a non-200 response raises
synthesize_speech(r) ==
    /\ pc[r] = "tts_synthesize"
    /\ Len(tts[r].audio_segments) < Len(tts[r].segments)
    /\ \/ \E audio \in ClipDurations :
             /\ calls' = [calls EXCEPT ![r] = Append(@, SegmentCall(r))]
             /\ tts' = [tts EXCEPT ![r].audio_segments = Append(@, audio)]
             /\ UNCHANGED <<pc, resp>>
       \/ /\ calls' = [calls EXCEPT ![r] = Append(@, FailedCall(SegmentCall(r)))]
          /\ pc' = [pc EXCEPT ![r] = "raised"]
          /\ resp' = [resp EXCEPT ![r] = Raised("ElevenLabs API Error")]
          /\ tts' = tts
    /\ UNCHANGED <<started, req, state, stages, cache, history>>
    /\ UNCHANGED pvars
    /\ UNCHANGED fvars

\* generate_tts, lines 468-473: assembly and export to the local file named
\* after the current second; an existing file of that name is overwritten
export_audio(r) ==
    /\ pc[r] = "tts_synthesize"
    /\ Len(tts[r].audio_segments) = Len(tts[r].segments)
    /\ tts' = [tts EXCEPT ![r].combined = Combine(tts[r].audio_segments),
                          ![r].temp_file = clock]
    /\ disk' = [disk EXCEPT ![clock] = r]
    /\ pc' = [pc EXCEPT ![r] = "tts_upload"]
    /\ UNCHANGED <<started, req, state, resp, calls, stages, cache, history, clock>>
    /\ UNCHANGED pvars

\* mutant of WriteKey: the bundle is stored under the question alone
MutWriteKeyDropsDocument(st) == <<st.rag_context.question, "">>

\* the key and the bundle of the cache write (lines 482-496)
WriteKey(st) == <<st.rag_context.question, st.pdf_title>>

WriteBundle(st, s3_url) ==
    CacheBundle(st.topic, st.script, st.messages, st.pdf_title, s3_url,
                st.rag_context.answer)

\* mutant of upload_file: the bundle is cached although the upload failed
MutUploadFileCachesOnFailure(r) ==
    /\ pc[r] = "tts_upload"
    /\ \/ \E s3_url \in URLs :
             /\ calls' = [calls EXCEPT ![r] = Append(@, Call("upload"))]
             /\ tts' = [tts EXCEPT ![r].s3_url = s3_url,
                                   ![r].published = disk[tts[r].temp_file]]
             /\ pc' = [pc EXCEPT ![r] = "tts_cache"]
             /\ UNCHANGED <<state, cache>>
             /\ history' = [history EXCEPT ![RequestKey(r)].last_upload = "ok"]
       \/ /\ calls' = [calls EXCEPT ![r] = Append(@, FailedCall(Call("upload")))]
          /\ state' = [state EXCEPT ![r].messages = Append(@, "upload_failed"),
                                    ![r].current_stage = "complete"]
          /\ cache' = [cache EXCEPT ![WriteKey(state[r])] =
                          WriteBundle(state[r], tts[r].temp_file)]
          /\ pc' = [pc EXCEPT ![r] = NextNode("tts_generation")]
          /\ tts' = tts
          /\ history' = [history EXCEPT ![RequestKey(r)].last_upload = "failed"]
    /\ UNCHANGED <<started, req, resp, stages>>
    /\ UNCHANGED pvars
    /\ UNCHANGED fvars

\* mutant of upload_file: the upload error leaves generate_tts
MutUploadFilePropagates(r) ==
    /\ pc[r] = "tts_upload"
    /\ \/ \E s3_url \in URLs :
             /\ calls' = [calls EXCEPT ![r] = Append(@, Call("upload"))]
             /\ tts' = [tts EXCEPT ![r].s3_url = s3_url,
                                   ![r].published = disk[tts[r].temp_file]]
             /\ pc' = [pc EXCEPT ![r] = "tts_cache"]
             /\ resp' = resp
             /\ history' = [history EXCEPT ![RequestKey(r)].last_upload = "ok"]
       \/ /\ calls' = [calls EXCEPT ![r] = Append(@, FailedCall(Call("upload")))]
          /\ pc' = [pc EXCEPT ![r] = "raised"]
          /\ resp' = [resp EXCEPT ![r] = Raised("upload error")]
          /\ tts' = tts
          /\ history' = [history EXCEPT ![RequestKey(r)].last_upload = "failed"]
    /\ UNCHANGED <<started, req, state, stages, cache>>
    /\ UNCHANGED pvars
    /\ UNCHANGED fvars

\* generate_tts, lines 475-480 and 503-510: the upload; a failure is caught,
\* noted in the transcript and the stage completes
upload_file(r) ==
    /\ pc[r] = "tts_upload"
    /\ \/ \E s3_url \in URLs :
             /\ calls' = [calls EXCEPT ![r] = Append(@, Call("upload"))]
             /\ tts' = [tts EXCEPT ![r].s3_url = s3_url,
                                   ![r].published = disk[tts[r].temp_file]]
             /\ pc' = [pc EXCEPT ![r] = "tts_cache"]
             /\ state' = state
             /\ history' = [history EXCEPT ![RequestKey(r)].last_upload = "ok"]
       \/ /\ calls' = [calls EXCEPT ![r] = Append(@, FailedCall(Call("upload")))]
          /\ state' = [state EXCEPT ![r].messages = Append(@, "upload_failed"),
                                    ![r].current_stage = "complete"]
          /\ pc' = [pc EXCEPT ![r] = NextNode("tts_generation")]
          /\ tts' = tts
          /\ history' = [history EXCEPT ![RequestKey(r)].last_upload = "failed"]
    /\ UNCHANGED <<started, req, resp, stages, cache>>
    /\ UNCHANGED pvars
    /\ UNCHANGED fvars

\* generate_tts, lines 482-510: the cache write inside the same try block;
\* when it raises, the except branch of the upload runs
cache_podcast(r) ==
    /\ pc[r] = "tts_cache"
    /\ \/ /\ calls' = [calls EXCEPT ![r] =
                          Append(@, CacheCall("cache_put", WriteKey(state[r])))]
          /\ cache' = [cache EXCEPT ![WriteKey(state[r])] =
                          WriteBundle(state[r], tts[r].s3_url)]
          /\ state' = [state EXCEPT ![r].s3_url = tts[r].s3_url,
                                    ![r].messages = Append(@, "uploaded"),
                                    ![r].current_stage = "complete"]
       \/ /\ calls' = [calls EXCEPT ![r] =
                          Append(@, FailedCall(CacheCall("cache_put", WriteKey(state[r]))))]
          /\ state' = [state EXCEPT ![r].messages = Append(@, "upload_failed"),
                                    ![r].current_stage = "complete"]
          /\ cache' = cache
    /\ pc' = [pc EXCEPT ![r] = NextNode("tts_generation")]
    /\ UNCHANGED <<started, req, tts, resp, stages, history>>
    /\ UNCHANGED pvars
    /\ UNCHANGED fvars

\* generate_flashcards (lines 232-254): a generator error is caught
generate_flashcards(r) ==
    /\ pc[r] = "generate_flashcards"
    /\ stages' = [stages EXCEPT ![r] = Append(@, "generate_flashcards")]
    /\ \/ /\ calls' = [calls EXCEPT ![r] = Append(@, GeneratorCall("flashcards", 5))]
          /\ state' = [state EXCEPT ![r].flashcards = "FlashcardSet",
                                    ![r].current_stage = "complete"]
       \/ /\ calls' = [calls EXCEPT ![r] =
                          Append(@, FailedCall(GeneratorCall("flashcards", 5)))]
          /\ state' = [state EXCEPT ![r].flashcards = None]
    /\ pc' = [pc EXCEPT ![r] = NextNode("generate_flashcards")]
    /\ UNCHANGED <<started, req, tts, resp, cache, history>>
    /\ UNCHANGED pvars
    /\ UNCHANGED fvars

\* generate_quiz (lines 203-225): a generator error is caught
generate_quiz(r) ==
    /\ pc[r] = "generate_quiz"
    /\ stages' = [stages EXCEPT ![r] = Append(@, "generate_quiz")]
    /\ \/ /\ calls' = [calls EXCEPT ![r] = Append(@, GeneratorCall("quiz", 5))]
          /\ state' = [state EXCEPT ![r].quiz = "QuizSet",
                                    ![r].current_stage = "complete"]
       \/ /\ calls' = [calls EXCEPT ![r] = Append(@, FailedCall(GeneratorCall("quiz", 5)))]
          /\ state' = [state EXCEPT ![r].quiz = None]
    /\ pc' = [pc EXCEPT ![r] = NextNode("generate_quiz")]
    /\ UNCHANGED <<started, req, tts, resp, cache, history>>
    /\ UNCHANGED pvars
    /\ UNCHANGED fvars

(***************************************************************************)
(* Back in the entry point, after graph.invoke returned.                   *)
(***************************************************************************)
\* the podcast response (lines 573-584)
PodcastResponse(st) ==
    [NoResponse EXCEPT !.kind = "return",
                       !.script = st.script,
                       !.s3_url = st.s3_url,
                       !.cached = st.cache_result.set /\ st.cache_result.found]

\* mutant of QuizResponse: the missing quiz is not checked
MutQuizResponseNoCheck(st) == [NoResponse EXCEPT !.kind = "return", !.quiz = st.quiz]

\* the quiz response or the error of lines 284-298
QuizResponse(st) ==
    IF st.quiz = None THEN Raised("No quiz was generated")
    ELSE [NoResponse EXCEPT !.kind = "return", !.quiz = st.quiz]

\* the flashcards response or the error of lines 325-350
FlashcardsResponse(st) ==
    IF st.flashcards = None THEN Raised("No flashcards were generated")
    ELSE [NoResponse EXCEPT !.kind = "return", !.flashcards = st.flashcards]

Response(st) ==
    IF st.output_type = "quiz" THEN QuizResponse(st)
    ELSE IF st.output_type = "flashcards" THEN FlashcardsResponse(st)
    ELSE PodcastResponse(st)

\* the entry point builds its response from the final state, or raises
Return(r) ==
    /\ pc[r] = "END"
    /\ resp' = [resp EXCEPT ![r] = Response(state[r])]
    /\ pc' = [pc EXCEPT ![r] = IF Response(state[r]).kind = "raise" THEN "raised"
                               ELSE "returned"]
    /\ history' =
          IF tts[r].s3_url # None /\ ~history[RequestKey(r)].done
          THEN [history EXCEPT ![RequestKey(r)].done = TRUE,
                               ![RequestKey(r)].script = Response(state[r]).script,
                               ![RequestKey(r)].s3_url = tts[r].s3_url]
          ELSE history
    /\ UNCHANGED <<started, req, state, tts, calls, stages, cache>>
    /\ UNCHANGED pvars
    /\ UNCHANGED fvars

Step(r) ==
    \/ Request(r)
    \/ QueryDocument(r)
    \/ InvokeGraph(r)
    \/ route_content(r)
    \/ check_cache(r)
    \/ retrieve_context(r)
    \/ expand_topic(r)
    \/ generate_script(r)
    \/ generate_tts(r)
    \/ synthesize_speech(r)
    \/ export_audio(r)
    \/ upload_file(r)
    \/ cache_podcast(r)
    \/ generate_flashcards(r)
    \/ generate_quiz(r)
    \/ Return(r)

\* requests are served one at a time (the menu loop of main), all within one
\* clock second: the clock decides nothing but the name of the exported file,
\* and a later run overwriting the file of an earlier one is the only way two
\* sequential runs meet on disk
Next == \E r \in SeqRuns : Step(r)

Spec == Init /\ [][Next]_vars

(***************************************************************************)
(* Properties of the workflow (checked under Spec).                        *)
(***************************************************************************)
PodcastRequest(r) == req[r].output_type = "podcast"

\* C1: a podcast request made after a run of the same (question, document)
\* pair completed with a successful publish makes no retrieval, model or TTS
\* call and returns the cached bundle: cached flag set, script and audio
\* location of that first run.
C1_SecondRequestServedFromCache ==
    \A r \in Runs :
        (PodcastRequest(r) /\ req[r].prior.done) =>
            /\ Count(r, "rag") = 0
            /\ Count(r, "llm") = 0
            /\ Count(r, "tts") = 0
            /\ pc[r] # "raised"
            /\ pc[r] = "returned" =>
                  /\ resp[r].cached
                  /\ resp[r].script = req[r].prior.script
                  /\ resp[r].s3_url = req[r].prior.s3_url

\* the nodes of a complete cache-miss run, in order
MissPath ==
    <<"route_content", "check_cache", "rag_retrieval", "topic_expansion",
      "script_generation", "tts_generation">>

\* C2: when the upload of a podcast run fails the cache holds no entry for the
\* run's key afterwards, and the next podcast request of that key misses the
\* cache and runs retrieval, outline, script generation and TTS again.
C2_FailedPublishLeavesCacheEmpty ==
    /\ \A k \in Keys : history[k].last_upload = "failed" => ~cache[k].present
    /\ \A r \in Runs :
          (PodcastRequest(r) /\ req[r].prior.last_upload = "failed") =>
              /\ ~state[r].cache_result.found
              /\ pc[r] = "returned" => ~resp[r].cached
              /\ pc[r] \in {"END", "returned"} =>
                    /\ stages[r] = MissPath
                    /\ Count(r, "cache_get") = 1
                    /\ Count(r, "rag") >= 1
                    /\ Count(r, "llm") = 2
                    /\ Count(r, "tts") = Len(tts[r].segments)

C2_Witness ==
    \E r \in Runs :
        /\ req[r].prior.last_upload = "failed"
        /\ pc[r] = "returned"
        /\ Count(r, "tts") = 2
        /\ ~cache[RequestKey(r)].present

\* C3: a generate_content call whose output type is none of podcast,
\* flashcards, quiz fails with a validation error, reaches no graph node and
\* calls no collaborator.
C3_UnknownOutputTypeRejected ==
    \A r \in Runs :
        (req[r].entry = "generate_content"
           /\ req[r].output_type \notin {"podcast", "flashcards", "quiz"}) =>
            /\ calls[r] = <<>>
            /\ stages[r] = <<>>
            /\ pc[r] # "returned"

\* the quiz (flashcard) generator was called in run r and raised
GeneratorRaised(r) ==
    \/ /\ "generate_quiz" \in {stages[r][i] : i \in 1..Len(stages[r])}
       /\ state[r].quiz = None
    \/ /\ "generate_flashcards" \in {stages[r][i] : i \in 1..Len(stages[r])}
       /\ state[r].flashcards = None

C5_SilenceBetweenClipsOnly ==
    \A r \in Runs :
        (tts[r].combined # -1 /\ Len(tts[r].audio_segments) >= 1) =>
            tts[r].combined =
                SumSeq(tts[r].audio_segments) + 500 * (Len(tts[r].audio_segments) - 1)

Populated(st) ==
    {f \in {"s3_url", "flashcards", "quiz"} :
        \/ f = "s3_url" /\ st.s3_url # None
        \/ f = "flashcards" /\ st.flashcards # None
        \/ f = "quiz" /\ st.quiz # None}

FieldOf(output_type) ==
    IF output_type = "podcast" THEN "s3_url"
    ELSE IF output_type = "flashcards" THEN "flashcards"
    ELSE "quiz"

\* C8 as stated: at the terminal state exactly one of audio location,
\* flashcard set, quiz is populated, the one of the run's output type.
C8_ExactlyOneResultPopulated ==
    \A r \in Runs :
        pc[r] = "END" => Populated(state[r]) = {FieldOf(state[r].output_type)}

\* the run's publish step failed (upload or cache write) or its generator
\* raised
ResultFailed(r) ==
    \/ state[r].messages[Len(state[r].messages)] = "upload_failed"
    \/ GeneratorRaised(r)

\* C8 amended: at the terminal state no field other than the one of the run's
\* output type is populated; that one is populated unless the publish step
\* failed (the upload or the cache write raised) or the generator raised, and
\* then none is.
C8_AtMostOneResultPopulated ==
    \A r \in Runs :
        pc[r] = "END" =>
            Populated(state[r]) =
                IF ResultFailed(r) THEN {} ELSE {FieldOf(state[r].output_type)}

C8_Witness ==
    \E r \in Runs :
        /\ pc[r] = "END"
        /\ state[r].cache_result.found
        /\ Populated(state[r]) = {"s3_url"}

GraphNodes ==
    {"route_content", "check_cache", "rag_retrieval", "topic_expansion",
     "script_generation", "tts_generation", "generate_flashcards", "generate_quiz"}

\* the node a position belongs to: generate_tts spans several positions
StageOf(p) ==
    IF p \in {"tts_synthesize", "tts_upload", "tts_cache"} THEN "tts_generation" ELSE p

\* the edges C9 lists
StatedEdges ==
    {<<"route_content", "check_cache">>, <<"route_content", "generate_flashcards">>,
     <<"route_content", "generate_quiz">>, <<"check_cache", "tts_generation">>,
     <<"check_cache", "rag_retrieval">>, <<"rag_retrieval", "topic_expansion">>,
     <<"topic_expansion", "script_generation">>,
     <<"script_generation", "tts_generation">>, <<"tts_generation", "END">>,
     <<"generate_flashcards", "END">>, <<"generate_quiz", "END">>}

NoDuplicates(seq) == \A i, j \in 1..Len(seq) : seq[i] = seq[j] => i = j

\* C9: a run enters the graph at route_content and moves only along the
\* stated edges (check_cache to tts_generation on a hit, to rag_retrieval on a
\* miss) or aborts; no node runs twice in a run; the terminal state is left
\* only for the entry point's return or raise.
C9_OnlyStatedEdges ==
    [][\A r \in Runs :
          LET a == StageOf(pc[r])
              b == StageOf(pc'[r])
          IN /\ (a \in GraphNodes /\ b # a) => (b = "raised" \/ <<a, b>> \in StatedEdges)
             /\ (a = "check_cache" /\ b = "tts_generation") => state'[r].cache_result.found
             /\ (a = "check_cache" /\ b = "rag_retrieval") => ~state'[r].cache_result.found
             /\ (a \notin GraphNodes \cup {"END"} /\ b \in GraphNodes \cup {"END"}) =>
                    b = "route_content"
             /\ a = "END" => b \in {"END", "returned", "raised"}
             /\ NoDuplicates(stages'[r])]_vars

C9_Witness ==
    \E r \in Runs :
        /\ pc[r] = "END"
        /\ stages[r] = MissPath
        /\ state[r].s3_url # None

\* every collaborator call returns or fails, so every enabled step of a run
\* is eventually taken
FairSpec == Spec /\ \A r \in SeqRuns : WF_vars(Step(r))

\* C10: every started run eventually reaches the terminal state or aborts
\* with an error.
C10_RunsTerminate ==
    \A r \in SeqRuns : (~Finished(r)) ~> (pc[r] \in {"END", "raised"})

C10_Witness ==
    \E r \in Runs :
        /\ pc[r] = "raised"
        /\ resp[r].error = "ElevenLabs API Error"
        /\ Count(r, "tts") = 2

(***************************************************************************)
(* Podcast runs in flight at once: every run slot steps on its own, the    *)
(* cache is the one object the runs share.                                 *)
(***************************************************************************)
\* a caller calls generate_podcast(question, pdf_title) while other calls
\* may be running
PodcastCall(r) ==
    /\ Finished(r)
    /\ started < MaxRequests
    /\ \E q \in Questions, d \in Docs :
          req' = [req EXCEPT ![r] =
                     [entry |-> "generate_podcast", question |-> q, pdf_title |-> d,
                      output_type |-> "podcast", prior |-> history[<<q, d>>]]]
    /\ pc' = [pc EXCEPT ![r] = "generate_podcast"]
    /\ started' = started + 1
    /\ state' = [state EXCEPT ![r] = NoState]
    /\ tts' = [tts EXCEPT ![r] = NoTts]
    /\ resp' = [resp EXCEPT ![r] = NoResponse]
    /\ calls' = [calls EXCEPT ![r] = <<>>]
    /\ stages' = [stages EXCEPT ![r] = <<>>]
    /\ UNCHANGED <<cache, history>>
    /\ UNCHANGED pvars
    /\ UNCHANGED fvars

PodcastStep(r) ==
    \/ PodcastCall(r)
    \/ InvokeGraph(r)
    \/ route_content(r)
    \/ check_cache(r)
    \/ retrieve_context(r)
    \/ expand_topic(r)
    \/ generate_script(r)
    \/ generate_tts(r)
    \/ synthesize_speech(r)
    \/ export_audio(r)
    \/ upload_file(r)
    \/ cache_podcast(r)
    \/ Return(r)

\* the clock moves on to the next second; only export_audio reads the clock,
\* so the seconds are told apart only while a run is on its way to the export
Tick ==
    /\ clock = "s1"
    /\ \E r \in Runs : pc[r] = "tts_synthesize"
    /\ clock' = "s2"
    /\ UNCHANGED <<started, req, pc, state, tts, resp, calls, stages, cache, history, disk>>
    /\ UNCHANGED pvars

ConcNext == Tick \/ \E r \in Runs : PodcastStep(r)

SpecConcurrent == Init /\ [][ConcNext]_vars

\* the step in which run r's cache write takes effect
WroteCache(r) ==
    /\ pc[r] = "tts_cache"
    /\ cache'[WriteKey(state[r])] = WriteBundle(state[r], tts[r].s3_url)
    /\ state'[r].s3_url # None

\* C11: under any interleaving of podcast runs, no cache write is made for a
\* key that already has an entry, a run served from the cache makes no cache
\* write, and a run makes at most one cache write.
C11_CacheWrittenOnce ==
    /\ [][\A r \in Runs : WroteCache(r) => ~cache[WriteKey(state[r])].present]_vars
    /\ [](\A r \in Runs :
             /\ state[r].cache_result.found => Count(r, "cache_put") = 0
             /\ Count(r, "cache_put") <= 1)

(***************************************************************************)
(* Error handling and frame properties of the stages (checked under Spec). *)
(***************************************************************************)
\* C12: when a TTS call of a run is answered with a non-success status, that
\* call is the run's last collaborator call (no retry, no later segment), the
\* run has raised the TTS error, no track is assembled or exported, no upload
\* and no cache write is made, the key has no cache entry and the audio
\* location is empty.
C12_TtsFailureAborts ==
    \A r \in Runs : \A i \in 1..Len(calls[r]) :
        (calls[r][i].op = "tts" /\ ~calls[r][i].ok) =>
            /\ i = Len(calls[r])
            /\ Count(r, "tts") = Len(tts[r].audio_segments) + 1
            /\ pc[r] = "raised"
            /\ resp[r].kind = "raise"
            /\ resp[r].error = "ElevenLabs API Error"
            /\ tts[r].combined = -1
            /\ tts[r].temp_file = None
            /\ Count(r, "upload") = 0
            /\ Count(r, "cache_put") = 0
            /\ ~cache[RequestKey(r)].present
            /\ tts[r].s3_url = None
            /\ state[r].s3_url = None

C12_Witness ==
    \E r \in Runs :
        /\ CallFailed(r, "tts")
        /\ Len(tts[r].segments) = 2
        /\ Len(tts[r].audio_segments) = 1
        /\ state[r].script.fmt = "text"
        /\ pc[r] = "raised"

\* C13: a podcast run that reaches retrieval with an empty question or an
\* empty document identifier raises the precondition error of
\* retrieve_context, retrieve_context makes no retrieval call, and answer,
\* evidence and transcript stay as they were.
C13_MissingQuestionRejected ==
    \A r \in Runs :
        (/\ PodcastRequest(r)
         /\ "rag_retrieval" \in {stages[r][i] : i \in 1..Len(stages[r])}
         /\ (req[r].question = "" \/ req[r].pdf_title = "")) =>
            /\ pc[r] = "raised"
            /\ resp[r].error = "RAG context or PDF title not provided"
            /\ Count(r, "rag") = IF req[r].entry = "generate_content" THEN 1 ELSE 0
            /\ state[r].rag_context.answer = None
            /\ state[r].rag_context.evidence = <<>>
            /\ state[r].messages = <<"human">>

\* state.script is None or the empty string
ScriptAbsentOrEmpty(script) ==
    script.fmt = "none" \/ (script.fmt = "text" /\ script.text = <<>>)

\* C14: when generate_tts has run without a cache hit on an absent or empty
\* script, the run has raised the precondition error, no TTS, upload or
\* cache-write call was made, and the run is not at the terminal state.
C14_EmptyScriptRejected ==
    \A r \in Runs :
        (/\ "tts_generation" \in {stages[r][i] : i \in 1..Len(stages[r])}
         /\ ~state[r].cache_result.found
         /\ ScriptAbsentOrEmpty(state[r].script)) =>
            /\ pc[r] = "raised"
            /\ resp[r].kind = "raise"
            /\ resp[r].error = "No script available for TTS generation."
            /\ Count(r, "tts") = 0
            /\ Count(r, "upload") = 0
            /\ Count(r, "cache_put") = 0

C14_Witness ==
    \E r \in Runs :
        /\ stages[r] = MissPath
        /\ state[r].script = TextScript(<<>>)
        /\ pc[r] = "raised"
        /\ resp[r].error = "No script available for TTS generation."

\* C15: the generate_tts step of a cache-hit run changes nothing of the
\* request state but the stage label, which becomes complete, makes no call,
\* leaves the cache alone and leads to the terminal state; a cache-hit run
\* makes no TTS, upload or cache-write call at all.
C15_TtsNoOpOnCacheHit ==
    /\ [][\A r \in Runs :
             (pc[r] = "tts_generation" /\ state[r].cache_result.found
                /\ pc'[r] # "tts_generation") =>
                 /\ pc'[r] = "END"
                 /\ state'[r] = [state[r] EXCEPT !.current_stage = "complete"]
                 /\ calls'[r] = calls[r]
                 /\ tts'[r] = NoTts
                 /\ cache' = cache]_vars
    /\ [](\A r \in Runs :
             state[r].cache_result.found =>
                 /\ Count(r, "tts") = 0
                 /\ Count(r, "upload") = 0
                 /\ Count(r, "cache_put") = 0)

C15_Witness ==
    \E r \in Runs :
        /\ pc[r] = "END"
        /\ state[r].cache_result.found
        /\ stages[r] = <<"route_content", "check_cache", "tts_generation">>
        /\ state[r].current_stage = "complete"
        /\ state[r].script = cache[RequestKey(r)].script

\* number of occurrences of m in a transcript
Occurrences(messages, m) == Cardinality({i \in 1..Len(messages) : messages[i] = m})

\* C16: when the upload call of a run fails, the run is at the terminal state
\* or has returned, with stage label complete; the transcript holds exactly
\* one publish-failure message, its last, naming the exported local file; and
\* the entry point returns a response and does not raise.
C16_PublishFailureCaught ==
    \A r \in Runs :
        CallFailed(r, "upload") =>
            /\ pc[r] \in {"END", "returned"}
            /\ state[r].current_stage = "complete"
            /\ Occurrences(state[r].messages, "upload_failed") = 1
            /\ state[r].messages[Len(state[r].messages)] = "upload_failed"
            /\ tts[r].temp_file # None
            /\ resp[r].kind = IF pc[r] = "returned" THEN "return" ELSE "none"

C16_Witness ==
    \E r \in Runs :
        /\ CallFailed(r, "upload")
        /\ pc[r] = "returned"
        /\ resp[r].kind = "return"
        /\ resp[r].s3_url = None

Regenerated == {"flashcards", "quiz"}

\* C17: a flashcards or quiz run makes no cache lookup, cache write, model,
\* TTS or upload call and none of its steps changes the cache; it calls the
\* generator of its output type once its stage runs, exactly once and with an
\* item count of 5, and never the other generator.
C17_FlashcardsQuizRegenerate ==
    /\ [][\A r \in Runs :
             (req[r].output_type \in Regenerated /\ req'[r] = req[r]
                /\ pc'[r] # pc[r]) => cache' = cache]_vars
    /\ [](\A r \in Runs :
             req[r].output_type \in Regenerated =>
                 /\ \A op \in {"cache_get", "cache_put", "llm", "tts", "upload"} :
                        Count(r, op) = 0
                 /\ \A op \in Regenerated \ {req[r].output_type} : Count(r, op) = 0
                 /\ Count(r, req[r].output_type) <= 1
                 /\ \A i \in 1..Len(calls[r]) :
                        calls[r][i].op \in Regenerated => calls[r][i].num = 5
                 /\ (pc[r] \in {"END", "returned"} \/ Len(stages[r]) = 2) =>
                        Count(r, req[r].output_type) = 1)

C17_Witness ==
    \E r \in Runs :
        /\ req[r].output_type = "flashcards"
        /\ pc[r] = "returned"
        /\ cache[RequestKey(r)].present
        /\ Count(r, "flashcards") = 1

\* C18: when the flashcard or quiz generator raises inside its stage, the
\* stage does not raise (the run is at the terminal state or back in the entry
\* point), the result field is empty and the transcript has gained a failure
\* record.
C18_GeneratorFailureRecorded ==
    \A r \in Runs :
        (CallFailed(r, "flashcards") \/ CallFailed(r, "quiz")) =>
            /\ stages[r][Len(stages[r])] \in {"generate_flashcards", "generate_quiz"}
            /\ resp[r].error \notin {"no edge for output type", "retrieval error"}
            /\ state[r].flashcards = None
            /\ state[r].quiz = None
            /\ Len(state[r].messages) > 1

\* C19: check_cache looks up the key (question, document identifier).  On a
\* hit its step sets found, copies audio location and script of the bundle
\* and appends exactly one message; on a miss it sets found to false, leaves
\* audio location and script empty and appends nothing.  The script and audio
\* location a cache-hit run returns are those of the stored entry.
C19_CheckCacheCopiesBundle ==
    /\ [][\A r \in Runs :
             (pc[r] = "check_cache" /\ pc'[r] # "check_cache") =>
                 LET bundle == cache[RequestKey(r)]
                 IN IF bundle.present
                    THEN /\ state'[r].cache_result.set
                         /\ state'[r].cache_result.found
                         /\ state'[r].s3_url = bundle.s3_url
                         /\ state'[r].script = bundle.script
                         /\ state'[r].messages = Append(state[r].messages, "cached")
                    ELSE /\ state'[r].cache_result.set
                         /\ ~state'[r].cache_result.found
                         /\ state'[r].s3_url = None
                         /\ state'[r].script = NoScript
                         /\ state'[r].messages = state[r].messages]_vars
    /\ [](\A r \in Runs :
             (pc[r] = "returned" /\ resp[r].cached) =>
                 /\ cache[RequestKey(r)].present
                 /\ resp[r].script = cache[RequestKey(r)].script
                 /\ resp[r].s3_url = cache[RequestKey(r)].s3_url
                 /\ resp[r].s3_url # None)

C19_Witness ==
    \E r \in Runs :
        /\ pc[r] = "returned"
        /\ resp[r].cached
        /\ resp[r].s3_url = "u2"
        /\ resp[r].script.fmt = "text"
        /\ Occurrences(state[r].messages, "cached") = 1

\* the calls C20 lists for a script of n segments, with or without the
\* cache write
ExpectedOps(n, written) ==
    <<"cache_get", "rag", "llm", "llm">> \o [i \in 1..n |-> "tts"] \o <<"upload">>
        \o (IF written THEN <<"cache_put">> ELSE <<>>)

\* C20: the calls of a cache-miss podcast run that completed are, in this
\* order: one cache lookup, one retrieval query, two model calls, one TTS
\* call per segment in segment order, one upload, at most one cache write.
C20_CallsInOrder ==
    \A r \in Runs :
        (/\ PodcastRequest(r)
         /\ pc[r] \in {"END", "returned"}
         /\ ~state[r].cache_result.found) =>
            /\ \E written \in BOOLEAN :
                   Ops(r) = ExpectedOps(Len(tts[r].segments), written)
            /\ \A i \in 1..Len(tts[r].segments) :
                   calls[r][4 + i].voice = voice_ids(tts[r].segments[i].speaker)
            /\ \A i \in 1..Len(calls[r]) :
                   ~calls[r][i].ok => calls[r][i].op \in {"upload", "cache_put"}

(***************************************************************************)
(* Propagation of collaborator errors, voices, cache keys and the publish  *)
(* outcome (checked under Spec); the exported file (SpecConcurrent).       *)
(***************************************************************************)
\* C21: when the retrieval call of retrieve_context or the model call of
\* expand_topic or generate_script fails, that call is the run's last (no
\* retry, no later stage, no TTS, upload or cache-write call), the run has
\* raised the error to the caller and the key has no cache entry.
C21_CollaboratorErrorPropagates ==
    \A r \in Runs : \A i \in 1..Len(calls[r]) :
        (calls[r][i].op \in {"rag", "llm"} /\ ~calls[r][i].ok /\ stages[r] # <<>>) =>
            /\ i = Len(calls[r])
            /\ pc[r] = "raised"
            /\ resp[r].kind = "raise"
            /\ resp[r].error = IF calls[r][i].op = "rag" THEN "retrieval error"
                               ELSE "model error"
            /\ stages[r][Len(stages[r])] =
                   IF calls[r][i].op = "rag" THEN "rag_retrieval"
                   ELSE IF Count(r, "llm") = 1 THEN "topic_expansion"
                   ELSE "script_generation"
            /\ Count(r, "llm") <= 2
            /\ Count(r, "tts") = 0
            /\ Count(r, "upload") = 0
            /\ Count(r, "cache_put") = 0
            /\ tts[r] = NoTts
            /\ ~cache[RequestKey(r)].present

C21_Witness ==
    \E r \in Runs :
        /\ CallFailed(r, "llm")
        /\ Count(r, "llm") = 2
        /\ pc[r] = "raised"
        /\ resp[r].error = "model error"

Roles == {"Speaker 1", "Speaker 2"}
Voices == {voice_ids(role) : role \in Roles}

\* C24: every TTS call of generate_tts is made with one of the two configured
\* voice identifiers, and every segment it synthesizes carries one of the two
\* role labels, whichever parse gave the script.
C24_TtsUsesConfiguredVoice ==
    \A r \in Runs :
        /\ \A i \in 1..Len(calls[r]) :
               calls[r][i].op = "tts" => calls[r][i].voice \in Voices
        /\ \A i \in 1..Len(tts[r].audio_segments) :
               tts[r].segments[i].speaker \in Roles

\* C25: under any interleaving of two podcast runs, the file a run uploads
\* holds the track that run assembled, also when both runs export in the
\* same clock second.
C25_RunPublishesOwnTrack ==
    \A r \in Runs : tts[r].published \in {None, r}

\* C26: in a run the key of the cache lookup equals the key of the cache
\* write, and every cache entry stored under (question, document) has that
\* question as topic and that document as source.
C26_LookupKeyIsWriteKey ==
    /\ \A r \in Runs : \A i, j \in 1..Len(calls[r]) :
           (calls[r][i].op = "cache_get" /\ calls[r][j].op = "cache_put") =>
               /\ calls[r][i].key = calls[r][j].key
               /\ calls[r][i].key = RequestKey(r)
    /\ \A k \in Keys :
           cache[k].present => (cache[k].topic = k[1] /\ cache[k].source_pdf = k[2])

C26_Witness ==
    \E r \in Runs :
        /\ Count(r, "cache_get") = 1
        /\ Count(r, "cache_put") = 1
        /\ ~CallFailed(r, "cache_put")
        /\ RequestKey(r) = <<"q1", "d1">>
        /\ cache[<<"q1", "d1">>].present
        /\ history[<<"", "d1">>].last_upload = "ok"

\* the upload call of run r returned a URL
UploadSucceeded(r) ==
    \E i \in 1..Len(calls[r]) : calls[r][i].op = "upload" /\ calls[r][i].ok

\* C27: when the upload of a run succeeded, the run ends with its audio
\* location equal to the URL the upload returned and with no publish-failure
\* message in its transcript, whether the cache write succeeded or raised.
C27_UploadedUrlKept ==
    \A r \in Runs :
        (UploadSucceeded(r) /\ pc[r] \in {"END", "returned"}) =>
            /\ state[r].s3_url = tts[r].s3_url
            /\ Occurrences(state[r].messages, "upload_failed") = 0
            /\ pc[r] = "returned" => resp[r].s3_url = tts[r].s3_url

(***************************************************************************)
(* The fallback parser on its own: the text is drawn from every            *)
(* concatenation of at most MaxChunks pieces, then parsed, rendered and    *)
(* parsed again.                                                           *)
(***************************************************************************)
MaxChunks == 4

Chunks ==
    {Prefix1, Prefix2, <<"Speaker", SpaceChar>>, <<"1", ":">>, <<SpaceChar>>, <<"h">>,
     <<Newline>>}

RECURSIVE Flatten(_)
Flatten(cs) == IF cs = <<>> THEN <<>> ELSE Head(cs) \o Flatten(Tail(cs))

Texts == {Flatten(cs) : cs \in UNION {[1..n -> Chunks] : n \in 0..MaxChunks}}

ParserInit ==
    /\ WorkflowInit
    /\ script_text \in Texts
    /\ pstage = "input"
    /\ parsed = <<>>
    /\ rendered = <<>>
    /\ reparsed = <<>>

\* script = self.parse_unstructured_script(state.script) (line 460)
ParseText ==
    /\ pstage = "input"
    /\ parsed' = parse_unstructured_script(script_text)
    /\ pstage' = "parsed"
    /\ UNCHANGED <<script_text, rendered, reparsed>>
    /\ UNCHANGED wvars

RenderParsed ==
    /\ pstage = "parsed"
    /\ rendered' = RenderSegments(parsed)
    /\ pstage' = "rendered"
    /\ UNCHANGED <<script_text, parsed, reparsed>>
    /\ UNCHANGED wvars

ParseRendered ==
    /\ pstage = "rendered"
    /\ reparsed' = parse_unstructured_script(rendered)
    /\ pstage' = "reparsed"
    /\ UNCHANGED <<script_text, parsed, rendered>>
    /\ UNCHANGED wvars

ParserNext == ParseText \/ RenderParsed \/ ParseRendered

SpecParser == ParserInit /\ [][ParserNext]_vars

(***************************************************************************)
(* Properties of the fallback parser (checked under SpecParser).           *)
(***************************************************************************)
HasNonBlankChar(text) == \E i \in 1..Len(text) : ~IsSpace(text[i])

AllLinesPrefixed(text) ==
    \A i \in 1..Len(SplitLines(text)) :
        \/ StartsWith(SplitLines(text)[i], Prefix1)
        \/ StartsWith(SplitLines(text)[i], Prefix2)

\* C6 as stated: the fallback parser returns at least one segment for every
\* non-empty text, whitespace-only text included.
C6_AnyNonEmptyTextYieldsSegment ==
    (pstage # "input" /\ script_text # <<>>) => Len(parsed) >= 1

\* C6 amended: the fallback parser returns at least one segment exactly when
\* the text holds a non-whitespace character; a text of whitespace and
\* newlines only yields a script with no segment.
C6_SegmentIffNonBlank ==
    pstage # "input" => (Len(parsed) >= 1 <=> HasNonBlankChar(script_text))

C6_Witness ==
    /\ pstage = "parsed"
    /\ HasNonBlankChar(script_text)
    /\ \E i \in 1..Len(script_text) : script_text[i] = Newline
    /\ Len(parsed) >= 1

\* C7: for a text whose lines all start with "Speaker 1:" or "Speaker 2:",
\* parsing the rendering of the parse gives the same segments as the parse.
C7_ReparseIdempotent ==
    (pstage = "reparsed" /\ AllLinesPrefixed(script_text)) => reparsed = parsed

NonBlankLines(text) == SelectSeq(SplitLines(text), HasNonBlankChar)

\* the speaker the spec gives a line
SpeakerOfLine(line) == IF StartsWith(line, Prefix2) THEN "Speaker 2" ELSE "Speaker 1"

\* C22: the fallback parser yields one segment per non-blank line, in line
\* order; a line beginning with "Speaker 2:" goes to Speaker 2, every other
\* non-blank line ("Speaker 1:" lines included) to Speaker 1; blank lines
\* yield nothing and every speaker is one of the two roles.
C22_OneSegmentPerLine ==
    pstage # "input" =>
        /\ Len(parsed) = Len(NonBlankLines(script_text))
        /\ \A i \in 1..Len(parsed) :
               /\ parsed[i].speaker = SpeakerOfLine(NonBlankLines(script_text)[i])
               /\ parsed[i].speaker \in {"Speaker 1", "Speaker 2"}

C22_Witness ==
    /\ pstage = "parsed"
    /\ Len(SplitLines(script_text)) = 3
    /\ Len(parsed) = 2
    /\ parsed[1].speaker = "Speaker 2"
    /\ parsed[2].speaker = "Speaker 1"

\* C23: for a line beginning with a role prefix the segment text is the line
\* without that leading prefix, trimmed; later occurrences of a prefix stay.
C23_OnlyLeadingPrefixRemoved ==
    pstage # "input" =>
        \A i \in 1..Len(parsed) :
            LET line == NonBlankLines(script_text)[i]
            IN (StartsWith(line, Prefix1) \/ StartsWith(line, Prefix2)) =>
                   parsed[i].text = Strip(Drop(line, Len(Prefix1)))

====
